---- MODULE Spec2Model ----
(***************************************************************************)
(* Mode state machine and animation core of the led-blimp firmware         *)
(* (NeoPixel ring, four modes cycled by one momentary switch).             *)
(*                                                                         *)
(* Time is millis(); one FreeRTOS tick is one millisecond.  The cooperative *)
(* loop of app_main is three steps: the watchdog yield (during which time  *)
(* passes and the raw switch level may change), switchMode and runMode.    *)
(* Each call is one atomic action: there is no preemption in the firmware. *)
(***************************************************************************)
EXTENDS Integers, Sequences, FiniteSets, TLC

(***************************************************************************)
(* Program constants                                                       *)
(***************************************************************************)
PixelCount == 24
saturation == 220
fadeDelay == 15000
rotateDelay == 200
modeCount == 4
DebounceMs == 5
SettleTicks == 20
IdleRunMs == 20
\* luminance = 0.5f, as a fraction of LumDen
LumNum == 1
LumDen == 2

\* indices of modes[]
OffMode == 0
FaderMode == 1
RotatorMode == 2
LightMode == 3

(***************************************************************************)
(* Bounds of the model                                                     *)
(***************************************************************************)
\* the loop stops yielding once millis() has reached this
MaxTime == 130
\* the same, where the switch is followed through a whole cycle of the modes
CycleMaxTime == 190
\* the same, where the loop is slow enough for fades to complete
FadeMaxTime == 32000
\* the same, where the comets are followed once round the ring and more,
\* and the time from which the switch is left alone there
RotMaxTime == 10600
RotQuiet == 1000
\* accepted release edges counted
MaxCount == 5

\* the update callbacks taken alone: progress runs over the fractions
\* 0/BlendDen .. BlendDen/BlendDen, the colours over BlendCols
BlendDen == 4
BlendCols ==
    {<<0, 0, 0, 0>>, <<0, 0, 0, 220>>, <<255, 0, 0, 0>>, <<1, 2, 3, 4>>,
     <<127, 128, 254, 255>>, <<255, 255, 255, 255>>}

\* the loop with iterations half a spin apart: where it stops yielding, and
\* the time from which the switch is left alone
SpinMaxTime == 2500
SpinQuiet == 700
SpinDts == {100}

\* widths of one loop iteration's yield, in ms, and hues random(360) returns
Dts == {2}
Hues == {0, 120}
CycleHues == {0}
FadeDts == {4999, 5000}
RotDts == {200}

(***************************************************************************)
(* Colours: <<R, G, B, W>>, each channel 0..255                            *)
(***************************************************************************)
black == <<0, 0, 0, 0>>
white == <<0, 0, 0, saturation>>

\* RgbwColor::LinearBlend(left, right, progress) with progress = num / den:
\* left + (right - left) * progress per channel, truncated to uint8
LinearBlend(left, right, num, den) ==
    [c \in 1..4 |-> (left[c] * den + (right[c] - left[c]) * num) \div den]

\* one channel of HslColor -> RgbColor at saturation 1.0: t is the channel's
\* hue offset in degrees, p and q the two lightness levels in 1/LumDen
HslChannel(deg) ==
    LET t == deg % 360
        q == IF 2 * LumNum < LumDen THEN 2 * LumNum ELSE LumDen
        p == 2 * LumNum - q
        v60 == IF t < 60 THEN p * 60 + (q - p) * t
               ELSE IF t < 180 THEN q * 60
               ELSE IF t < 240 THEN p * 60 + (q - p) * (240 - t)
               ELSE p * 60
    IN  (v60 * 255) \div (60 * LumDen)

\* RgbwColor(HslColor(hue / 360.0f, 1.0f, luminance)): white is not mixed in
HslColor(hue) ==
    <<HslChannel(hue + 120), HslChannel(hue), HslChannel(hue + 240), 0>>

(***************************************************************************)
(* Animation engine: a fixed array of slots                                *)
(***************************************************************************)
\* progress is the numerator of the fraction progress / duration last passed
\* to the callback; started is the time of the start() that filled the slot
IdleSlot ==
    [state |-> "Idle", elapsed |-> 0, duration |-> 0, progress |-> 0,
     started |-> 0]

NeoPixelAnimator(n) ==
    [slots |-> [i \in 0..(n - 1) |-> IdleSlot], lastTick |-> 0]

IsAnimating(a) == \E i \in DOMAIN a.slots : a.slots[i].state = "Running"

\* start(slot, duration, callback): overwrites the slot unconditionally; the
\* tick reference restarts when nothing else is running
StartAnimation(a, i, duration, t) ==
    IF i \notin DOMAIN a.slots THEN a
    ELSE [slots |-> [a.slots EXCEPT ![i] =
                        [state |-> "Running", elapsed |-> 0,
                         duration |-> IF duration = 0 THEN 1 ELSE duration,
                         progress |-> 0, started |-> t]],
          lastTick |-> IF IsAnimating(a) THEN a.lastTick ELSE t]

StopAll(a) ==
    [slots |-> [i \in DOMAIN a.slots |-> IdleSlot], lastTick |-> a.lastTick]

\* the slot after a tick that advanced time by delta: progress is
\* min(elapsed, duration) / duration, Completed when progress reaches 1.0
TickSlot(s, delta) ==
    LET e == s.elapsed + delta
        pr == IF e >= s.duration THEN s.duration ELSE e
    IN  [state |-> IF pr = s.duration THEN "Completed" ELSE "Running",
         elapsed |-> e, duration |-> s.duration, progress |-> pr,
         started |-> s.started]

(***************************************************************************)
(* The world the modes act on.  log is the trace of the current runMode    *)
(* call: <<event, mode index>>.                                            *)
(***************************************************************************)
NewFader ==
    [inOrOut |-> 0,
     state |-> [StartColor |-> black, EndColor |-> black],
     animations |-> NeoPixelAnimator(1)]

NewRotator ==
    [dot1 |-> 0, dot2 |-> 0,
     cols1 |-> [c \in 0..(PixelCount \div 2 - 1) |-> black],
     cols2 |-> [c \in 0..(PixelCount \div 2 - 1) |-> black],
     state |-> [i \in 0..(PixelCount - 1) |->
                  [StartColor |-> black, EndColor |-> black, pixel |-> 0]],
     animations |-> NeoPixelAnimator(PixelCount),
     spins |-> 0]

Note(w, ev, m) == [w EXCEPT !.log = Append(@, <<ev, m>>)]

ClearTo(w, m, col) ==
    Note([w EXCEPT !.ring = [i \in 0..(PixelCount - 1) |-> col]], "ClearTo", m)

Show(w, m) == Note(w, "Show", m)

prevPix(pix) == (pix + PixelCount - 1) % PixelCount

\* nextPix without the wrap
nextPix_noWrap(pix) == pix + 1

nextPix(pix) == (pix + 1) % PixelCount

(***************************************************************************)
(* modeOff, modeLight                                                      *)
(***************************************************************************)
modeOff_setup(w) == Show(ClearTo(w, OffMode, black), OffMode)

modeOff_run(w) == [w EXCEPT !.now = @ + IdleRunMs]

modeOff_stop(w) == w

\* modeLight::setup clearing to black
modeLight_setup_black(w) == Show(ClearTo(w, LightMode, black), LightMode)

modeLight_setup(w) == Show(ClearTo(w, LightMode, white), LightMode)

modeLight_run(w) == [w EXCEPT !.now = @ + IdleRunMs]

modeLight_stop(w) == w

(***************************************************************************)
(* modeFader                                                               *)
(***************************************************************************)
\* animUpd blending from EndColor back to StartColor
modeFader_animUpd_swapped(w, num, den) ==
    LET col == LinearBlend(w.fader.state.EndColor,
                           w.fader.state.StartColor, num, den)
    IN  Note(Note([w EXCEPT !.ring = [i \in 0..(PixelCount - 1) |-> col]],
                  "animUpd", FaderMode),
             "SetPixelColor", FaderMode)

modeFader_animUpd(w, num, den) ==
    LET col == LinearBlend(w.fader.state.StartColor,
                           w.fader.state.EndColor, num, den)
    IN  Note(Note([w EXCEPT !.ring = [i \in 0..(PixelCount - 1) |-> col]],
                  "animUpd", FaderMode),
             "SetPixelColor", FaderMode)

\* fadeInOut starting the slot one unit short
modeFader_fadeInOut_short(w, hue) ==
    LET col == IF w.fader.inOrOut = 0 THEN HslColor(hue) ELSE black
    IN  [w EXCEPT !.fader.state =
                      [StartColor |-> w.fader.state.EndColor, EndColor |-> col],
                  !.fader.animations =
                      StartAnimation(@, 0, fadeDelay - 1, w.now)]

\* fadeInOut with the flip of inOrOut left in
modeFader_fadeInOut_flips(w, hue) ==
    LET col == IF w.fader.inOrOut = 0 THEN HslColor(hue) ELSE black
    IN  [w EXCEPT !.fader.state =
                      [StartColor |-> w.fader.state.EndColor, EndColor |-> col],
                  !.fader.animations =
                      StartAnimation(@, 0, fadeDelay, w.now),
                  !.fader.inOrOut = 1 - @]

\* fadeInOut starting every transition from black
modeFader_fadeInOut_fromBlack(w, hue) ==
    LET col == IF w.fader.inOrOut = 0 THEN HslColor(hue) ELSE black
    IN  [w EXCEPT !.fader.state = [StartColor |-> black, EndColor |-> col],
                  !.fader.animations =
                      StartAnimation(@, 0, fadeDelay, w.now)]

modeFader_fadeInOut(w, hue) ==
    LET col == IF w.fader.inOrOut = 0 THEN HslColor(hue) ELSE black
    IN  [w EXCEPT !.fader.state =
                      [StartColor |-> w.fader.state.EndColor, EndColor |-> col],
                  !.fader.animations =
                      StartAnimation(@, 0, fadeDelay, w.now)]

\* modeFader::setup without the reset of state[0]
modeFader_setup_keepsColours(w) ==
    Show(ClearTo([w EXCEPT !.fader.inOrOut = 0], FaderMode, black), FaderMode)

modeFader_setup(w) ==
    Show(ClearTo([w EXCEPT !.fader.inOrOut = 0,
                           !.fader.state =
                               [StartColor |-> black, EndColor |-> black]],
                 FaderMode, black),
         FaderMode)

modeFader_stop(w) == [w EXCEPT !.fader.animations = StopAll(@)]

(***************************************************************************)
(* modeRotator                                                             *)
(***************************************************************************)
\* the loop over state[] from entry i on: each entry paints its own pixel
RECURSIVE PaintFrom(_, _, _, _, _)
PaintFrom(r, st, i, num, den) ==
    IF i \notin DOMAIN st THEN r
    ELSE PaintFrom([r EXCEPT ![st[i].pixel] =
                       LinearBlend(st[i].StartColor, st[i].EndColor, num, den)],
                   st, i + 1, num, den)

modeRotator_animUpd(w, num, den) ==
    Note(Note([w EXCEPT !.ring = PaintFrom(@, w.rotator.state, 0, num, den)],
              "animUpd", RotatorMode),
         "SetPixelColor", RotatorMode)

\* the loop over one comet's colours, from tail offset c on, walking
\* backwards from pixel p
RECURSIVE SpinTail(_, _, _, _)
SpinTail(st, cols, p, c) ==
    IF c \notin DOMAIN cols THEN st
    ELSE SpinTail([st EXCEPT ![p] = [StartColor |-> st[p].EndColor,
                                     EndColor |-> cols[c],
                                     pixel |-> st[p].pixel]],
                  cols, prevPix(p), c + 1)

\* spin walking the tails back from the heads as they were before the
\* advance
modeRotator_spin_staleHeads(w) ==
    LET d1 == nextPix(w.rotator.dot1)
        d2 == nextPix(w.rotator.dot2)
        s1 == SpinTail(w.rotator.state, w.rotator.cols1, w.rotator.dot1, 0)
        s2 == SpinTail(s1, w.rotator.cols2, w.rotator.dot2, 0)
    IN  [w EXCEPT !.rotator.dot1 = d1,
                  !.rotator.dot2 = d2,
                  !.rotator.state = s2,
                  !.rotator.animations =
                      StartAnimation(@, 0, rotateDelay, w.now),
                  !.rotator.spins = @ + 1]

modeRotator_spin(w) ==
    LET d1 == nextPix(w.rotator.dot1)
        d2 == nextPix(w.rotator.dot2)
        s1 == SpinTail(w.rotator.state, w.rotator.cols1, d1, 0)
        s2 == SpinTail(s1, w.rotator.cols2, d2, 0)
    IN  [w EXCEPT !.rotator.dot1 = d1,
                  !.rotator.dot2 = d2,
                  !.rotator.state = s2,
                  !.rotator.animations =
                      StartAnimation(@, 0, rotateDelay, w.now),
                  !.rotator.spins = @ + 1]

modeRotator_setup(w, hue1, hue2) ==
    LET w1 == Show(ClearTo(w, RotatorMode, black), RotatorMode)
        d1 == 0
        d2 == PixelCount \div 2
        col1 == HslColor(hue1)
        col2 == HslColor(hue2)
        half == PixelCount \div 2
        st0 == [i \in 0..(PixelCount - 1) |->
                  [StartColor |-> black, EndColor |-> black, pixel |-> i]]
        st1 == [st0 EXCEPT ![d1].EndColor = col1]
        st2 == [st1 EXCEPT ![d2].EndColor = col2]
    IN  [w1 EXCEPT !.rotator.dot1 = d1,
                   !.rotator.dot2 = d2,
                   !.rotator.cols1 =
                       [c \in 0..(half - 1) |-> LinearBlend(col1, black, c, half)],
                   !.rotator.cols2 =
                       [c \in 0..(half - 1) |-> LinearBlend(col2, black, c, half)],
                   !.rotator.state = st2,
                   !.rotator.spins = 0]

modeRotator_stop(w) == [w EXCEPT !.rotator.animations = StopAll(@)]

(***************************************************************************)
(* tick of a mode's engine: every Running slot advances by the time since  *)
(* the previous tick and its callback runs synchronously                   *)
(***************************************************************************)
animUpd(m, w, num, den) ==
    IF m = FaderMode THEN modeFader_animUpd(w, num, den)
    ELSE modeRotator_animUpd(w, num, den)

Animations(m, w) ==
    IF m = FaderMode THEN w.fader.animations ELSE w.rotator.animations

WithAnimations(m, w, a) ==
    IF m = FaderMode THEN [w EXCEPT !.fader.animations = a]
    ELSE [w EXCEPT !.rotator.animations = a]

RECURSIVE TickFrom(_, _, _, _)
TickFrom(m, w, i, delta) ==
    LET a == Animations(m, w)
    IN  IF i \notin DOMAIN a.slots THEN w
        ELSE IF a.slots[i].state # "Running" THEN TickFrom(m, w, i + 1, delta)
        ELSE LET s == TickSlot(a.slots[i], delta)
                 w1 == WithAnimations(m, w,
                          [a EXCEPT !.slots[i] = s])
             IN  TickFrom(m, animUpd(m, w1, s.progress, s.duration),
                          i + 1, delta)

UpdateAnimations(m, w) ==
    LET a == Animations(m, w)
        delta == w.now - a.lastTick
        w1 == TickFrom(m, w, 0, delta)
    IN  WithAnimations(m, w1, [Animations(m, w1) EXCEPT !.lastTick = w.now])

\* run() starting the next transition in the call whose tick completed
\* the slot
modeFader_run_chains(w, hue) ==
    IF IsAnimating(w.fader.animations)
    THEN LET w1 == Show(UpdateAnimations(FaderMode, w), FaderMode)
         IN  IF IsAnimating(w1.fader.animations) THEN w1
             ELSE modeFader_fadeInOut(w1, hue)
    ELSE modeFader_fadeInOut(w, hue)

modeFader_run(w, hue) ==
    IF IsAnimating(w.fader.animations)
    THEN Show(UpdateAnimations(FaderMode, w), FaderMode)
    ELSE modeFader_fadeInOut(w, hue)

\* run() spinning on every call
modeRotator_run_alwaysSpins(w) == modeRotator_spin(w)

modeRotator_run(w) ==
    IF IsAnimating(w.rotator.animations)
    THEN Show(UpdateAnimations(RotatorMode, w), RotatorMode)
    ELSE modeRotator_spin(w)

(***************************************************************************)
(* virtual dispatch through modes[]                                        *)
(***************************************************************************)
setup(m, w, hue1, hue2) ==
    LET w1 == Note(w, "setup", m)
    IN  CASE m = OffMode -> modeOff_setup(w1)
          [] m = FaderMode -> modeFader_setup(w1)
          [] m = RotatorMode -> modeRotator_setup(w1, hue1, hue2)
          [] OTHER -> modeLight_setup(w1)

run(m, w, hue) ==
    LET w1 == Note(w, "run", m)
    IN  CASE m = OffMode -> modeOff_run(w1)
          [] m = FaderMode -> modeFader_run(w1, hue)
          [] m = RotatorMode -> modeRotator_run(w1)
          [] OTHER -> modeLight_run(w1)

stop(m, w) ==
    LET w1 == Note(w, "stop", m)
    IN  CASE m = OffMode -> modeOff_stop(w1)
          [] m = FaderMode -> modeFader_stop(w1)
          [] m = RotatorMode -> modeRotator_stop(w1)
          [] OTHER -> modeLight_stop(w1)

vTaskDelay(w, ticks) == [w EXCEPT !.now = @ + ticks]

\* what a mode looks like when its setup() has returned
Snapshot(w) ==
    [w EXCEPT !.entered =
        <<[state |-> w.fader.state,
           animating |-> IsAnimating(w.fader.animations),
           ring |-> w.ring]>>]

\* runMode without the comparison with lastMode
runMode_alwaysSetsUp(m, last, w, hue1, hue2) ==
    run(m, Snapshot(setup(m, vTaskDelay(stop(m, w), SettleTicks), hue1, hue2)),
        hue1)

\* runMode calling run() on the mode of the previous call
runMode_runsPrevious(m, last, w, hue1, hue2) ==
    LET w1 == IF m # last
              THEN Snapshot(setup(m, vTaskDelay(stop(m, w), SettleTicks),
                                  hue1, hue2))
              ELSE w
    IN  run(IF last = -1 THEN m ELSE last, w1, hue1)

\* runMode(mode) with lastMode = last: the world after the call
runMode(m, last, w, hue1, hue2) ==
    LET w1 == IF m # last
              THEN Snapshot(setup(m, vTaskDelay(stop(m, w), SettleTicks),
                                  hue1, hue2))
              ELSE w
    IN  run(m, w1, hue1)

\* switchMode storing the level it ignores
switchMode_storesIgnored(m, val, t, lv, lc) ==
    IF val # lv
    THEN IF t - lc < DebounceMs
         THEN [ret |-> lv, lastVal |-> val, lastChange |-> lc]
         ELSE [ret |-> IF val = 0 THEN (m + 1) % modeCount ELSE m,
               lastVal |-> val, lastChange |-> t]
    ELSE [ret |-> m, lastVal |-> val, lastChange |-> lc]

\* switchMode incrementing without the wrap
switchMode_noWrap(m, val, t, lv, lc) ==
    IF val # lv
    THEN IF t - lc < DebounceMs
         THEN [ret |-> lv, lastVal |-> lv, lastChange |-> lc]
         ELSE [ret |-> IF val = 0 THEN m + 1 ELSE m,
               lastVal |-> val, lastChange |-> t]
    ELSE [ret |-> m, lastVal |-> val, lastChange |-> lc]

\* switchMode(mode) reading level val at time t.  lastChange is an earlier
\* reading of millis(), so the unsigned difference is t - lc as long as
\* millis() has not wrapped (49 days)
switchMode(m, val, t, lv, lc) ==
    IF val # lv
    THEN IF t - lc < DebounceMs
         THEN [ret |-> lv, lastVal |-> lv, lastChange |-> lc]
         ELSE [ret |-> IF val = 0 THEN (m + 1) % modeCount ELSE m,
               lastVal |-> val, lastChange |-> t]
    ELSE [ret |-> m, lastVal |-> val, lastChange |-> lc]

(***************************************************************************)
(* State                                                                   *)
(***************************************************************************)
VARIABLES
    now,        \* millis()
    pin,        \* raw level of SwitchPin
    pc,         \* where app_main's loop stands: "delay", "switch", "run"
    mode,       \* app_main's mode
    lastMode,   \* runMode's static
    lastVal,    \* switchMode's static
    lastChange, \* switchMode's static
    fader,      \* modes[1]
    rotator,    \* modes[2]
    ring,       \* the frame buffer
    calls,      \* what the last runMode call did: [from, to, log, entered]
    accRel,     \* release edges accepted so far (history)
    scen        \* the last raw press/release pair (history)

vars == <<now, pin, pc, mode, lastMode, lastVal, lastChange, fader, rotator,
          ring, calls, accRel, scen>>

NoScen == [ph |-> "idle", m0 |-> 0, at |-> 0]

Init ==
    /\ now = 0
    /\ pin = 0
    /\ pc = "delay"
    /\ mode = 0
    /\ lastMode = -1
    /\ lastVal = 0
    /\ lastChange = 0
    /\ fader = NewFader
    /\ rotator = NewRotator
    /\ ring = [i \in 0..(PixelCount - 1) |-> black]
    /\ calls = [from |-> -1, to |-> -1, log |-> <<>>, entered |-> <<>>]
    /\ accRel = 0
    /\ scen = NoScen

\* history of the raw level: a press seen from the settled released state,
\* and a release exactly 2 ms after it
ScenAfter(t, newpin) ==
    IF newpin = pin THEN scen
    ELSE IF newpin = 1
         THEN IF lastVal = 0 /\ t - lastChange >= DebounceMs
              THEN [ph |-> "press", m0 |-> mode, at |-> t]
              ELSE NoScen
         ELSE IF scen.ph = "press" /\ t - scen.at = 2
              THEN [ph |-> "done", m0 |-> scen.m0, at |-> 0]
              ELSE NoScen

\* vTaskDelay(1) at the top of the loop: time passes, the switch may move
Yield(dts, levels, tmax) ==
    /\ pc = "delay"
    /\ \E dt \in dts, newpin \in levels :
          /\ now + dt <= tmax
          /\ now' = now + dt
          /\ pin' = newpin
          /\ scen' = ScenAfter(now + dt, newpin)
    /\ pc' = "switch"
    /\ UNCHANGED <<mode, lastMode, lastVal, lastChange, fader, rotator, ring,
                   calls, accRel>>

\* mode = switchMode(mode)
SwitchStep ==
    /\ pc = "switch"
    /\ LET r == switchMode(mode, pin, now, lastVal, lastChange)
       IN  /\ mode' = r.ret
           /\ lastVal' = r.lastVal
           /\ lastChange' = r.lastChange
           /\ accRel' = IF r.lastChange # lastChange /\ pin = 0
                           /\ accRel < MaxCount
                        THEN accRel + 1 ELSE accRel
    /\ pc' = "run"
    /\ UNCHANGED <<now, pin, lastMode, fader, rotator, ring, calls, scen>>

\* a second random(360) is drawn only by modeRotator::setup
RotatorDraws == mode = RotatorMode /\ mode # lastMode

\* runMode(mode)
RunStep(hues) ==
    /\ pc = "run"
    /\ \E hue1 \in hues, hue2 \in (IF RotatorDraws THEN hues ELSE {0}) :
          LET w == runMode(mode, lastMode,
                           [now |-> now, fader |-> fader, rotator |-> rotator,
                            ring |-> ring, log |-> <<>>, entered |-> <<>>],
                           hue1, hue2)
          IN  /\ now' = w.now
              /\ fader' = w.fader
              /\ rotator' = w.rotator
              /\ ring' = w.ring
              /\ calls' = [from |-> lastMode, to |-> mode, log |-> w.log,
                           entered |-> w.entered]
    /\ lastMode' = mode
    /\ pc' = "delay"
    /\ UNCHANGED <<pin, mode, lastVal, lastChange, accRel, scen>>

Next == Yield(Dts, {0, 1}, MaxTime) \/ SwitchStep \/ RunStep(Hues)

Spec == Init /\ [][Next]_vars

\* the same loop followed long enough for the switch to go round the modes
CycleNext ==
    Yield(Dts, {0, 1}, CycleMaxTime) \/ SwitchStep \/ RunStep(CycleHues)

SpecCycle == Init /\ [][CycleNext]_vars

\* the same loop with iterations seconds apart
FadeNext == Yield(FadeDts, {0, 1}, FadeMaxTime) \/ SwitchStep \/ RunStep(Hues)

SpecFade == Init /\ [][FadeNext]_vars

\* the same loop with iterations a spin apart, the switch used only at first
RotNext ==
    \/ Yield(RotDts, IF now < RotQuiet THEN {0, 1} ELSE {pin}, RotMaxTime)
    \/ SwitchStep
    \/ RunStep(Hues)

SpecRotate == Init /\ [][RotNext]_vars

\* the same loop with iterations half a spin apart
SpinNext ==
    \/ Yield(SpinDts, IF now < SpinQuiet THEN {0, 1} ELSE {pin}, SpinMaxTime)
    \/ SwitchStep
    \/ RunStep(Hues)

SpecSpin == Init /\ [][SpinNext]_vars

(***************************************************************************)
(* The update callbacks taken alone: state[] holds arbitrary colours and   *)
(* the engine calls the callback of slot 0 with an arbitrary progress      *)
(***************************************************************************)
BlendInit ==
    /\ now = 0
    /\ pin = 0
    /\ pc = "delay"
    /\ mode = 0
    /\ lastMode = -1
    /\ lastVal = 0
    /\ lastChange = 0
    /\ \E A \in BlendCols, B \in BlendCols :
          /\ fader = [NewFader EXCEPT
                         !.state = [StartColor |-> A, EndColor |-> B]]
          /\ rotator = [NewRotator EXCEPT
                           !.state = [i \in 0..(PixelCount - 1) |->
                               [StartColor |-> IF i % 2 = 0 THEN A ELSE B,
                                EndColor |-> IF i % 2 = 0 THEN B ELSE A,
                                pixel |-> i]]]
    /\ ring = [i \in 0..(PixelCount - 1) |-> black]
    /\ calls = [from |-> -1, to |-> -1, log |-> <<>>, entered |-> <<>>]
    /\ accRel = 0
    /\ scen = NoScen

\* slot 0 as the engine holds it when it calls back with progress num / den
SlotAt(num, den) ==
    [state |-> IF num = den THEN "Completed" ELSE "Running",
     elapsed |-> num, duration |-> den, progress |-> num, started |-> 0]

\* the callback of mode m called with progress num / BlendDen
BlendStep(m) ==
    \E num \in 0..BlendDen :
        LET w0 == [now |-> now,
                   fader |-> IF m = FaderMode
                             THEN [fader EXCEPT !.animations.slots[0] =
                                       SlotAt(num, BlendDen)]
                             ELSE fader,
                   rotator |-> IF m = RotatorMode
                               THEN [rotator EXCEPT !.animations.slots[0] =
                                         SlotAt(num, BlendDen)]
                               ELSE rotator,
                   ring |-> ring, log |-> <<>>, entered |-> <<>>]
            w == animUpd(m, w0, num, BlendDen)
        IN  /\ fader' = w.fader
            /\ rotator' = w.rotator
            /\ ring' = w.ring
            /\ calls' = [from |-> m, to |-> m, log |-> w.log,
                         entered |-> <<>>]
            /\ UNCHANGED <<now, pin, pc, mode, lastMode, lastVal, lastChange,
                           accRel, scen>>

BlendFader == BlendStep(FaderMode)

BlendRotator == BlendStep(RotatorMode)

BlendNext == BlendFader \/ BlendRotator

SpecBlend == BlendInit /\ [][BlendNext]_vars

(***************************************************************************)
(* Properties                                                              *)
(***************************************************************************)
AllBlack(r) == \A i \in DOMAIN r : r[i] = black

Writes == {"ClearTo", "SetPixelColor", "Show", "animUpd"}

Transition == calls.from # -1 /\ calls.to # calls.from

\* C1: for every transition M -> M' of runMode, stop() is invoked on the
\* outgoing mode M before setup() is invoked on the incoming mode M'.
C1_StopOutgoingBeforeSetup ==
    Transition =>
        \E i, j \in DOMAIN calls.log :
            /\ i < j
            /\ calls.log[i] = <<"stop", calls.from>>
            /\ calls.log[j] = <<"setup", calls.to>>

\* C2: a switchMode call that reads a level different from the last accepted
\* one less than 5 ms after the last accepted change returns the mode index
\* it was given and leaves lastVal and lastChange unchanged.
C2_BounceIgnored ==
    [][(pc = "switch" /\ pin # lastVal /\ now - lastChange < DebounceMs)
         => (mode' = mode /\ lastVal' = lastVal /\ lastChange' = lastChange)]_vars

\* C3: once the raw level has gone up and, 2 ms later, down again, and has
\* stayed down since, the mode index is the one held before the two toggles.
C3_PairCollapsed == scen.ph = "done" => mode = scen.m0

\* C4: no animation slot of a mode that is not the dispatcher's active mode
\* is Running.
C4_InactiveModesIdle ==
    /\ lastMode # FaderMode => ~IsAnimating(fader.animations)
    /\ lastMode # RotatorMode => ~IsAnimating(rotator.animations)

\* C5: every write to the ring and every update callback of a runMode call
\* belongs to the mode at the dispatcher's current index, and nothing is
\* written between stop() and setup() of a transition.
C5_OnlyActiveModeWrites ==
    /\ calls.to # -1 => calls.to = lastMode
    /\ \A i \in DOMAIN calls.log :
          calls.log[i][1] \in Writes => calls.log[i][2] = lastMode
    /\ \A i, j, k \in DOMAIN calls.log :
          (i < k /\ k < j /\ calls.log[i][1] = "stop"
             /\ calls.log[j][1] = "setup")
          => calls.log[k][1] \notin Writes

\* C5 witness: Rotator's callback painted the ring while the slot Fader was
\* left with is still Running.
C5_Witness ==
    /\ lastMode = RotatorMode
    /\ IsAnimating(fader.animations)
    /\ \E i \in DOMAIN calls.log : calls.log[i] = <<"animUpd", RotatorMode>>

\* C6: whenever runMode activates Fader, then at the return of setup() both
\* colours of state[0] are black, no Fader slot is Running and the frame is
\* all black; the frame is still all black when the first transition has
\* been started.
C6_FaderStartsBlack ==
    (calls.to = FaderMode /\ calls.from # FaderMode) =>
        /\ Len(calls.entered) = 1
        /\ calls.entered[1].state = [StartColor |-> black, EndColor |-> black]
        /\ ~calls.entered[1].animating
        /\ AllBlack(calls.entered[1].ring)
        /\ AllBlack(ring)
        /\ fader.state.StartColor = black
        /\ IsAnimating(fader.animations)

\* C6 witness: Fader activated again after it was left in the middle of a
\* fade whose colours had been painted.
C6_Witness ==
    /\ calls.to = FaderMode
    /\ calls.from = RotatorMode
    /\ pc = "delay"
    /\ fader.animations.slots[0].elapsed = 0

\* C7: when exactly modeCount release edges have been accepted, the mode
\* index is the one the loop started with.
C7_CycleReturns == accRel = modeCount => mode = 0

\* C8: the mode index of the main loop is in 0..modeCount-1 after every
\* switchMode call, and so is the index runMode was last called with.
C8_ModeInRange ==
    /\ mode \in 0..(modeCount - 1)
    /\ lastMode \in -1..(modeCount - 1)
    /\ (pc = "delay" /\ calls.to # -1) => lastMode = mode

\* C8 witness: the release accepted in Light wraps the index to 0.
C8_Witness == pc = "run" /\ lastMode = LightMode /\ mode = OffMode

FaderSlot == fader.animations.slots[0]

SlotSound(a, i) ==
    LET s == a.slots[i]
    IN  /\ s.progress <= s.duration
        /\ s.state = "Running" =>
              (s.elapsed < s.duration /\ s.progress = s.elapsed)
        /\ s.state = "Completed" =>
              (s.elapsed >= s.duration /\ s.progress = s.duration)
        /\ s.state # "Idle" => s.elapsed = a.lastTick - s.started

SlotAdvances(a, b, i) ==
    (a.slots[i].state = "Running" /\ b.slots[i].state # "Idle") =>
        /\ b.slots[i].duration = a.slots[i].duration
        /\ b.slots[i].progress >= a.slots[i].progress
        /\ b.slots[i].state = "Completed" =>
              (a.slots[i].elapsed < a.slots[i].duration
                 /\ b.slots[i].elapsed >= b.slots[i].duration)

\* C9: a slot is Completed exactly from the first tick at which the time
\* elapsed since its start is >= its duration (15000 for Fader) and Running
\* before; the progress passed to the callback is elapsed / duration capped
\* at 1.0 and does not decrease from tick to tick.
C9_CompletesAtDuration ==
    /\ [](/\ \A i \in DOMAIN fader.animations.slots :
                SlotSound(fader.animations, i)
          /\ \A i \in DOMAIN rotator.animations.slots :
                SlotSound(rotator.animations, i)
          /\ FaderSlot.state = "Running" => FaderSlot.elapsed < fadeDelay
          /\ FaderSlot.state = "Completed" => FaderSlot.elapsed >= fadeDelay)
    /\ [][/\ \A i \in DOMAIN fader.animations.slots :
                SlotAdvances(fader.animations, fader.animations', i)
          /\ \A i \in DOMAIN rotator.animations.slots :
                SlotAdvances(rotator.animations, rotator.animations', i)]_vars

\* C9 witness: Fader's slot Completed on the tick at which exactly 15000 ms
\* have elapsed.
C9_Witness ==
    FaderSlot.state = "Completed" /\ FaderSlot.elapsed = fadeDelay

\* C10: while Rotator is active, after K spins since its setup() dot1 is
\* K mod 24 and dot2 is (12 + K) mod 24: both are ring indices, half a ring
\* apart.
C10_DotsAdvance ==
    lastMode = RotatorMode =>
        /\ rotator.dot1 = rotator.spins % PixelCount
        /\ rotator.dot2 = (PixelCount \div 2 + rotator.spins) % PixelCount
        /\ rotator.dot1 \in 0..(PixelCount - 1)
        /\ rotator.dot2 \in 0..(PixelCount - 1)
        /\ (rotator.dot2 - rotator.dot1) % PixelCount = PixelCount \div 2

\* C10 witness: the 24th spin has brought dot1 back to pixel 0.
C10_Witness ==
    lastMode = RotatorMode /\ rotator.spins = PixelCount /\ rotator.dot1 = 0

\* the colours random(360) can lead fadeInOut to
FadeTargets == {HslColor(h) : h \in Hues}

\* C11: Fader's inOrOut is 0 in every reachable state, so the EndColor of
\* every transition fadeInOut has started is a freshly drawn colour and
\* never the black of the fade-out branch.
C11_NeverFadesOut ==
    /\ fader.inOrOut = 0
    /\ FaderSlot.state # "Idle" =>
          (fader.state.EndColor \in FadeTargets
             /\ fader.state.EndColor # black)

\* C11 witness: Fader's second transition in a row has been started, from
\* the colour the first one ended on.
C11_Witness ==
    /\ lastMode = FaderMode
    /\ FaderSlot.state = "Running"
    /\ FaderSlot.elapsed = 0
    /\ fader.state.StartColor \in FadeTargets

\* the frame is col on every pixel
AllOf(r, col) == \A i \in DOMAIN r : r[i] = col

\* the trace of a runMode call that activates the constant mode m
ConstantEntry(m) ==
    <<<<"stop", m>>, <<"setup", m>>, <<"ClearTo", m>>, <<"Show", m>>,
      <<"run", m>>>>

\* C12: the runMode call that activates Off (Light) clears the frame to
\* black (white) and shows it once; every later call while the mode stays
\* active writes nothing, and the frame is all black (all white) for as
\* long as the mode is the active one.
C12_ConstantModesHoldFrame ==
    /\ lastMode = OffMode => AllOf(ring, black)
    /\ lastMode = LightMode => AllOf(ring, white)
    /\ \A m \in {OffMode, LightMode} :
          /\ (calls.to = m /\ calls.from # m) => calls.log = ConstantEntry(m)
          /\ (calls.to = m /\ calls.from = m) => calls.log = <<<<"run", m>>>>

\* C12 witness: Light has run on a tick after the one that activated it,
\* with the frame all white.
C12_Witness ==
    /\ calls.from = LightMode
    /\ calls.to = LightMode
    /\ AllOf(ring, white)
    /\ white # black

\* pixel i of the frame is what start -> end gives at the ends of the
\* progress range s stands at, and start itself where the two are equal
BlendEnds(s, st, i) ==
    /\ s.progress = 0 => ring[i] = st.StartColor
    /\ s.progress = s.duration => ring[i] = st.EndColor
    /\ st.StartColor = st.EndColor => ring[i] = st.StartColor

\* C13: the colour an update callback paints is StartColor at progress 0,
\* EndColor at progress 1 and, where StartColor = EndColor, that colour at
\* every progress: blend(A,B,0) = A, blend(A,B,1) = B, blend(A,A,t) = A on
\* every channel.
C13_BlendEndpoints ==
    /\ calls.to = FaderMode =>
          \A i \in DOMAIN ring : BlendEnds(FaderSlot, fader.state, i)
    /\ calls.to = RotatorMode =>
          \A i \in DOMAIN ring :
              BlendEnds(rotator.animations.slots[0], rotator.state[i], i)

\* C13 witness: Fader's callback was called with progress 1 and painted
\* an EndColor that differs from StartColor on every channel.
C13_Witness ==
    /\ calls.to = FaderMode
    /\ FaderSlot.progress = FaderSlot.duration
    /\ \A c \in 1..4 : fader.state.StartColor[c] # fader.state.EndColor[c]
    /\ AllOf(ring, fader.state.EndColor)

RotatorSlot == rotator.animations.slots[0]

\* a runMode call has returned with Rotator active
RotatorRan == lastMode = RotatorMode /\ pc = "delay"

\* runMode is about to call run() on Rotator, already active
RotatorRuns == pc = "run" /\ mode = RotatorMode /\ lastMode = RotatorMode

TailColor(r, i) ==
    LET o1 == (r.dot1 - i) % PixelCount
        o2 == (r.dot2 - i) % PixelCount
    IN  IF o1 < PixelCount \div 2 THEN r.cols1[o1] ELSE r.cols2[o2]

\* element i lies in exactly one of the two tails of rotator r
InOneTail(r, i) ==
    ((r.dot1 - i) % PixelCount < PixelCount \div 2)
        # ((r.dot2 - i) % PixelCount < PixelCount \div 2)

\* C15: a spin gives every element i of state[] its previous EndColor as
\* StartColor and, as EndColor, cols1[(dot1 - i) mod 24] where that offset
\* is below 12 and cols2[(dot2 - i) mod 24] elsewhere, dot1 and dot2 being
\* the advanced heads; every element lies in exactly one tail.  For the
\* spin that follows setup() the previous EndColor is the one setup() set.
C15_SpinReassignsAll ==
    /\ [](RotatorRan =>
            \A i \in 0..(PixelCount - 1) :
                /\ rotator.state[i].EndColor = TailColor(rotator, i)
                /\ rotator.state[i].pixel = i
                /\ InOneTail(rotator, i)
                /\ rotator.spins = 1 =>
                      rotator.state[i].StartColor =
                          IF i = 0 THEN rotator.cols1[0]
                          ELSE IF i = PixelCount \div 2 THEN rotator.cols2[0]
                          ELSE black)
    /\ [][(RotatorRuns /\ RotatorSlot.state # "Running") =>
            /\ rotator'.dot1 = nextPix(rotator.dot1)
            /\ rotator'.dot2 = nextPix(rotator.dot2)
            /\ rotator'.cols1 = rotator.cols1
            /\ rotator'.cols2 = rotator.cols2
            /\ \A i \in 0..(PixelCount - 1) :
                  /\ rotator'.state[i].StartColor = rotator.state[i].EndColor
                  /\ rotator'.state[i].EndColor = TailColor(rotator', i)]_vars

\* C15 witness: the spin that brought dot1 round to pixel 0 again, the two
\* comets being of different colours: pixel 0 goes from the last colour of
\* the second tail to the head colour of the first, pixel 23 from black.
C15_Witness ==
    /\ RotatorRan
    /\ rotator.spins = PixelCount
    /\ rotator.cols1[0] # rotator.cols2[0]
    /\ rotator.state[0].StartColor = rotator.cols2[PixelCount \div 2 - 1]
    /\ rotator.state[0].EndColor = rotator.cols1[0]
    /\ rotator.state[PixelCount - 1].EndColor = rotator.cols1[1]
    /\ RotatorSlot.elapsed = 0

\* a runMode call has returned with Fader active
FaderRan == lastMode = FaderMode /\ pc = "delay"

\* runMode is about to call run() on Fader, already active
FaderRuns == pc = "run" /\ mode = FaderMode /\ lastMode = FaderMode

\* the longest and the shortest loop iteration of the slow loop
FadeStepMax == CHOOSE d \in FadeDts : \A e \in FadeDts : e <= d

FadeStepMin == CHOOSE d \in FadeDts : \A e \in FadeDts : d <= e

\* the loop of app_main never ends: it has gone on until millis() is as far
\* as it is followed
FadeHorizon == pc = "delay" /\ now + FadeStepMin > FadeMaxTime

\* C16: while Fader is active, a run() call that finds the slot Running
\* ticks and shows and starts nothing; the run() call after the one that
\* completed the transition starts the slot anew and neither ticks nor
\* shows.  In a run of the loop that goes on, every transition started is
\* completed and every completed transition is followed by a new one, for
\* as long as Fader stays active: transitions keep being started.
C16_FaderKeepsFading ==
    /\ [][FaderRuns =>
            IF FaderSlot.state = "Running"
            THEN /\ fader'.animations.slots[0].started = FaderSlot.started
                 /\ fader'.animations.slots[0].elapsed
                       = now - FaderSlot.started
                 /\ fader'.state = fader.state
                 /\ calls'.log = <<<<"run", FaderMode>>,
                                   <<"animUpd", FaderMode>>,
                                   <<"SetPixelColor", FaderMode>>,
                                   <<"Show", FaderMode>>>>
            ELSE /\ FaderSlot.state = "Completed"
                 /\ fader'.animations.slots[0].state = "Running"
                 /\ fader'.animations.slots[0].elapsed = 0
                 /\ fader'.animations.slots[0].started = now
                 /\ calls'.log = <<<<"run", FaderMode>>>>
                 /\ ring' = ring]_vars
    /\ <>FadeHorizon =>
          ((FaderRan /\ FaderSlot.state = "Completed"
              /\ now + FadeStepMax <= FadeMaxTime)
             ~> ((FaderRan /\ FaderSlot.state = "Running"
                     /\ FaderSlot.started = now)
                 \/ lastMode # FaderMode))
    /\ <>FadeHorizon =>
          ((FaderRan /\ FaderSlot.state = "Running"
              /\ FaderSlot.started + fadeDelay + FadeStepMax <= FadeMaxTime)
             ~> ((FaderRan /\ FaderSlot.state = "Completed")
                 \/ lastMode # FaderMode))

\* C16 witness: the run() call after a completed transition has started
\* the next one and done nothing else.
C16_Witness ==
    /\ FaderRan
    /\ calls.from = FaderMode
    /\ calls.log = <<<<"run", FaderMode>>>>
    /\ FaderSlot.state = "Running"
    /\ FaderSlot.started >= fadeDelay
    /\ FaderSlot.started = now

\* switchMode is about to read a level that differs from lastVal, at least
\* DebounceMs after the last accepted change
AcceptsEdge == pc = "switch" /\ pin # lastVal /\ now - lastChange >= DebounceMs

\* C17: an accepted press edge leaves the mode index unchanged and sets
\* lastVal and lastChange; the mode index changes only in a switchMode call
\* that accepts a release edge, and then to (mode + 1) mod modeCount.
C17_ModeChangesOnReleaseOnly ==
    [][/\ (AcceptsEdge /\ pin = 1) =>
              (mode' = mode /\ lastVal' = 1 /\ lastChange' = now)
       /\ mode' # mode =>
              (AcceptsEdge /\ pin = 0 /\ mode' = (mode + 1) % modeCount)]_vars

\* how many times the last runMode call invoked method ev, on any mode
Invoked(ev) == Cardinality({i \in DOMAIN calls.log : calls.log[i][1] = ev})

\* C18: every runMode call invokes run() once, on the mode it was given;
\* it invokes stop() and setup() (once each, before run()) when the index
\* differs from the one of the previous call, the first call being
\* runMode(0) with lastMode = -1 and so invoking Off's setup(); when the
\* index is the one of the previous call it invokes neither.
C18_RunOncePerCall ==
    calls.to # -1 =>
        /\ calls.to = lastMode
        /\ Invoked("run") = 1
        /\ \E i \in DOMAIN calls.log :
              /\ calls.log[i] = <<"run", calls.to>>
              /\ \A j \in DOMAIN calls.log :
                    calls.log[j][1] \in {"stop", "setup"} => j < i
        /\ calls.from # calls.to =>
              (Invoked("stop") = 1 /\ Invoked("setup") = 1
                 /\ \E i \in DOMAIN calls.log :
                       calls.log[i] = <<"setup", calls.to>>)
        /\ calls.from = calls.to =>
              (Invoked("stop") = 0 /\ Invoked("setup") = 0)
        /\ calls.from = -1 => calls.to = OffMode

\* C18 witness: a call with the index of the previous call ran Rotator,
\* whose callback painted, without stop() or setup().
C18_Witness ==
    /\ calls.from = RotatorMode
    /\ calls.to = RotatorMode
    /\ Invoked("animUpd") = 1
    /\ Invoked("setup") = 0

\* switchMode is about to read a level that differs from lastVal inside
\* the debounce window
IgnoresEdge == pc = "switch" /\ pin # lastVal /\ now - lastChange < DebounceMs

\* C19: a switchMode call that ignores a changed level leaves lastVal and
\* lastChange as they were, and the first call that reads a level differing
\* from lastVal DebounceMs or more after the last accepted change accepts
\* it (a release then increments the mode index it was given): when
\* switchMode has returned, the raw level differs from lastVal only inside
\* the window.
C19_IgnoredChangePending ==
    /\ [](pc = "run" => (pin # lastVal => now - lastChange < DebounceMs))
    /\ [][/\ IgnoresEdge =>
                (lastVal' = lastVal /\ lastChange' = lastChange)
          /\ AcceptsEdge =>
                /\ lastVal' = pin
                /\ lastChange' = now
                /\ mode' = IF pin = 0 THEN (mode + 1) % modeCount
                           ELSE mode]_vars

\* C19 witness: a release read 2 ms after an accepted press, and ignored,
\* has persisted and has just been accepted.
C19_Witness ==
    /\ scen.ph = "done"
    /\ pc = "run"
    /\ lastVal = 0
    /\ lastChange = now
    /\ mode # scen.m0

\* C20: the transition fadeInOut starts has as StartColor the EndColor of
\* the transition before it, and black when it is the first after setup();
\* the frame a completed transition leaves is its EndColor, the frame does
\* not change when the next one is started, and every tick paints the
\* blend of the two colours, so the frame goes from one transition to the
\* next without a jump.
C20_FadesJoin ==
    /\ [](/\ (calls.to = FaderMode /\ calls.from # FaderMode) =>
                fader.state.StartColor = black
          /\ FaderRan =>
                /\ FaderSlot.state = "Completed" =>
                      AllOf(ring, fader.state.EndColor)
                /\ (FaderSlot.state = "Running" /\ FaderSlot.elapsed = 0) =>
                      AllOf(ring, fader.state.StartColor)
                /\ FaderSlot.state = "Running" =>
                      AllOf(ring, LinearBlend(fader.state.StartColor,
                                              fader.state.EndColor,
                                              FaderSlot.elapsed,
                                              FaderSlot.duration)))
    /\ [][(FaderRuns /\ FaderSlot.state # "Running") =>
            /\ fader'.state.StartColor = fader.state.EndColor
            /\ ring' = ring]_vars

\* C20 witness: a transition towards another hue has been started from
\* the colour the one before it ended on, which the frame shows.
C20_Witness ==
    /\ FaderRan
    /\ calls.from = FaderMode
    /\ FaderSlot.started = now
    /\ fader.state.StartColor = HslColor(0)
    /\ fader.state.EndColor = HslColor(120)
    /\ AllOf(ring, HslColor(0))

====
